---------------------------- MODULE Spec2Model ----------------------------
(***************************************************************************)
(* django-partial-index: the validation mixin (partial_index/mixins.py)    *)
(* and the partial unique indexes it pre-checks (partial_index/__init__.py)*)
(*                                                                         *)
(* A model class has the fields a, b and d.  a and d are nullable, b is    *)
(* not.  A declaration is a model class: its Meta.indexes and its          *)
(* Meta.unique_together.  The store holds the rows of the model's table.   *)
(***************************************************************************)
EXTENDS Integers, Sequences, FiniteSets, TLC

(***************************************************************************)
(* Bounds of the model.                                                    *)
(***************************************************************************)
\* The largest value of field b.
MaxVal == 2

(***************************************************************************)
(* Values.                                                                 *)
(***************************************************************************)
\* Python's None, SQL's NULL.
None == -1

\* The values of the fields: a and d are nullable, b is not.
AVals == {None, 1}
BVals == 1 .. MaxVal
DVals == {None, 1}

\* Primary keys: the table holds the row the database numbers 1 and a row
\* saved with the explicit primary key 0, which the database accepts.
PKs == {0, 1}

\* The fields of the model class, besides the primary key.
FieldNames == {"a", "b", "d"}

\* An instance of the model class, or a row of its table.
Rows == [pk : PKs, a : AVals, b : BVals, d : DVals]
Instances == [pk : {None} \cup PKs, a : AVals, b : BVals, d : DVals]

\* django.core.exceptions.NON_FIELD_ERRORS
NON_FIELD_ERRORS == "__all__"

(***************************************************************************)
(* Structured predicates (PQ objects), as trees.                           *)
(***************************************************************************)
IsNull(f)      == [op |-> "isnull", field |-> f]
Exact(f, v)    == [op |-> "exact", field |-> f, val |-> v]
Gt(f, v)       == [op |-> "gt", field |-> f, val |-> v]
ExactF(f, g)   == [op |-> "exactF", field |-> f, other |-> g]
And(l, r)      == [op |-> "AND", l |-> l, r |-> r]
Or(l, r)       == [op |-> "OR", l |-> l, r |-> r]
NoQ            == [op |-> "none"]

\* The three ways a descriptor's `where` is given: a Q object, a text, or
\* nothing (the empty string).
QWhere(q)      == [kind |-> "Q", text |-> "", q |-> q]
TextWhere(t)   == [kind |-> "text", text |-> t, q |-> NoQ]
NoWhere        == TextWhere("")

\* What the database makes of a raw-text predicate.
TextMeaning(t) ==
    CASE t = "d IS NULL" -> IsNull("d")
      [] t = "d = true"  -> Exact("d", 1)
      [] t = "d = 1"     -> Exact("d", 1)
      [] OTHER           -> NoQ

\* SQL's three-valued logic: "T", "F" or "U" (unknown).
And3(x, y) == IF x = "F" \/ y = "F" THEN "F"
              ELSE IF x = "T" /\ y = "T" THEN "T" ELSE "U"
Or3(x, y)  == IF x = "T" \/ y = "T" THEN "T"
              ELSE IF x = "F" /\ y = "F" THEN "F" ELSE "U"
Bool3(b)   == IF b THEN "T" ELSE "F"

\* The value of predicate q on row r, as the database computes it.
RECURSIVE Eval(_, _)
Eval(q, r) ==
    CASE q.op = "isnull" -> Bool3(r[q.field] = None)
      [] q.op = "exact"  -> IF r[q.field] = None THEN "U"
                            ELSE Bool3(r[q.field] = q.val)
      [] q.op = "gt"     -> IF r[q.field] = None THEN "U"
                            ELSE Bool3(r[q.field] > q.val)
      [] q.op = "exactF" -> IF r[q.field] = None \/ r[q.other] = None THEN "U"
                            ELSE Bool3(r[q.field] = r[q.other])
      [] q.op = "AND"    -> And3(Eval(q.l, r), Eval(q.r, r))
      [] q.op = "OR"     -> Or3(Eval(q.l, r), Eval(q.r, r))
      [] OTHER           -> "U"

\* The field names a Q object mentions.
RECURSIVE q_mentioned_fields(_)
q_mentioned_fields(q) ==
    CASE q.op \in {"isnull", "exact", "gt"} -> {q.field}
      [] q.op = "exactF"                   -> {q.field, q.other}
      [] q.op \in {"AND", "OR"}            -> q_mentioned_fields(q.l) \cup q_mentioned_fields(q.r)
      [] OTHER                             -> {}

(***************************************************************************)
(* Descriptors.                                                            *)
(***************************************************************************)
\* PartialIndex(fields, unique, where, where_postgresql, where_sqlite)
PartialIndex(fields, unique, where, where_postgresql, where_sqlite) ==
    [fields |-> fields, unique |-> unique, where |-> where,
     where_postgresql |-> where_postgresql, where_sqlite |-> where_sqlite]

\* A field name of idx.fields without its direction marker.
StripOrder(name) ==
    CASE name = "-a" -> "a" [] name = "-b" -> "b" [] name = "-d" -> "d" [] OTHER -> name

\* Index.fields_orders: (field name, order) pairs.
fields_orders(idx) ==
    [i \in 1 .. Len(idx.fields) |->
        IF idx.fields[i] \in {"-a", "-b", "-d"}
        THEN <<StripOrder(idx.fields[i]), "DESC">>
        ELSE <<idx.fields[i], "">>]

\* The set of the elements of a sequence.
Range(s) == {s[i] : i \in 1 .. Len(s)}


(***************************************************************************)
(* Model classes: Meta.indexes and Meta.unique_together.                   *)
(***************************************************************************)
\* user -> a, room -> b, deleted_at -> d
RoomBookingQ ==
    [indexes |-> <<PartialIndex(<<"a", "b">>, TRUE, QWhere(IsNull("d")), "", "")>>,
     unique_together |-> <<>>]

\* user -> a, room -> b, deleted_at -> d
RoomBookingText ==
    [indexes |-> <<PartialIndex(<<"a", "b">>, TRUE, TextWhere("d IS NULL"), "", "")>>,
     unique_together |-> <<>>]

\* order -> a, group -> b, is_complete -> d
JobQ ==
    [indexes |-> <<PartialIndex(<<"-a">>, FALSE, QWhere(Exact("d", 1)), "", ""),
                   PartialIndex(<<"b">>, TRUE, QWhere(Exact("d", 1)), "", "")>>,
     unique_together |-> <<>>]

\* Three unique partial indexes, two of them on several fields (the first
\* has the predicate of ComparisonQ), and a unique_together that holds
\* whatever the predicates say.
Label ==
    [indexes |-> <<PartialIndex(<<"a", "b">>, TRUE, QWhere(ExactF("a", "b")), "", ""),
                   PartialIndex(<<"b", "d">>, TRUE, QWhere(Exact("d", 1)), "", ""),
                   PartialIndex(<<"b">>, TRUE, QWhere(IsNull("d")), "", "")>>,
     unique_together |-> << <<"a", "d">> >>]

\* A Q-based descriptor followed by one with a pair of dialect texts.
JobMixed ==
    [indexes |-> <<PartialIndex(<<"a", "b">>, TRUE, QWhere(IsNull("d")), "", ""),
                   PartialIndex(<<"b">>, TRUE, NoWhere, "d = true", "d = 1")>>,
     unique_together |-> <<>>]

\* A unique descriptor on a descending field, followed by a text one.
DescendingThenText ==
    [indexes |-> <<PartialIndex(<<"-a", "b">>, TRUE, QWhere(IsNull("d")), "", ""),
                   PartialIndex(<<"a", "b">>, TRUE, TextWhere("d IS NULL"), "", "")>>,
     unique_together |-> <<>>]

\* Predicates that are an ordering comparison, a disjunction, a conjunction.
Compound ==
    [indexes |-> <<PartialIndex(<<"a">>, TRUE, QWhere(Gt("b", 0)), "", ""),
                   PartialIndex(<<"b">>, TRUE,
                                QWhere(Or(Exact("a", 1), And(IsNull("d"), Gt("b", 1)))), "", "")>>,
     unique_together |-> <<>>]

Declarations ==
    <<Compound, RoomBookingQ, RoomBookingText, JobQ, Label, JobMixed,
      DescendingThenText>>

\* The database vendors the library supports (the keys of sql_create_index).
Vendors == {"postgresql", "sqlite"}

(***************************************************************************)
(* Error dictionaries: a function from keys to lists of entries.           *)
(***************************************************************************)
EmptyDict == [k \in {} |-> <<>>]

\* errors[key].append(entry) on a defaultdict(list)
DictAppendFirstOnly(errors, key, entry) ==
    IF DOMAIN errors # {} THEN errors ELSE [k \in {key} |-> <<entry>>]

DictAppend(errors, key, entry) ==
    [k \in (DOMAIN errors) \cup {key} |->
        IF k = key
        THEN (IF k \in DOMAIN errors THEN Append(errors[k], entry) ELSE <<entry>>)
        ELSE errors[k]]

\* errors.update(other): the keys of other replace those of errors.
DictUpdate(errors, other) ==
    [k \in (DOMAIN errors) \cup (DOMAIN other) |->
        IF k \in DOMAIN other THEN other[k] ELSE errors[k]]

\* Model.unique_error_message(model_class, unique_check)
unique_error_message(unique_check) ==
    [code |-> IF Cardinality(unique_check) = 1 THEN "unique" ELSE "unique_together",
     unique_check |-> unique_check]

\* What a call returns or raises.
Returned(errors) ==
    [kind |-> IF DOMAIN errors # {} THEN "ValidationError" ELSE "ok", errors |-> errors]
Raised(kind) == [kind |-> kind, errors |-> EmptyDict]

(***************************************************************************)
(* ValidatePartialUniqueMixin.validate_partial_unique                      *)
(***************************************************************************)
\* self._meta.get_fields(...): the names of the model's fields.
model_fields == FieldNames \cup {"id"}

\* [idx for idx in self._meta.indexes if isinstance(idx, PartialIndex) and idx.unique]
unique_idxs(decl) == SelectSeq(decl.indexes, LAMBDA idx : idx.unique)

\* isinstance(where, Q)
IsQAlways(where) == TRUE

IsQ(where) == where.kind = "Q"

\* set(idx.fields) | set(query.q_mentioned_fields(where, self.__class__))
mentioned_fields(idx) == Range(idx.fields) \cup q_mentioned_fields(idx.where.q)

\* mentioned_fields - model_fields
missing_fields(idx) == mentioned_fields(idx) \ model_fields

\* "Skip indexes with excluded fields"
ExcludedNever(idx, exclude) == FALSE

Excluded(idx, exclude) == mentioned_fields(idx) \cap exclude # {}

\* The loop over mentioned_fields: skip when the value of an indexed field
\* is None.
SkipNever(idx, self) == FALSE

Skip(idx, self) ==
    \E field_name \in mentioned_fields(idx) :
        self[field_name] = None /\ field_name \in Range(idx.fields)

\* The lookup values: those of the mentioned fields.
values(idx, self) == [field_name \in mentioned_fields(idx) |-> self[field_name]]

\* objects.filter(**values): a lookup by None is a lookup by IS NULL.
FilterValues(rows, vals) ==
    {r \in rows : \A f \in DOMAIN vals : r[f] = vals[f]}

\* .filter(where): the rows on which the predicate is true.
FilterWhere(rows, q) == {r \in rows : Eval(q, r) = "T"}

\* "if self.pk: conflict = conflict.exclude(pk=self.pk)"
ExcludeSelf(rows, self) ==
    IF self.pk # None /\ self.pk # 0 THEN {r \in rows : r.pk # self.pk} ELSE rows

\* The conflict queryset of one descriptor.
conflict(idx, rows, self) ==
    ExcludeSelf(FilterWhere(FilterValues(rows, values(idx, self)), idx.where.q), self)

\* The key a failure is recorded under.
ErrorKeyByMentioned(idx) ==
    IF Cardinality(mentioned_fields(idx)) = 1 THEN idx.fields[1] ELSE NON_FIELD_ERRORS

ErrorKey(idx) == IF Len(idx.fields) = 1 THEN idx.fields[1] ELSE NON_FIELD_ERRORS

\* The body of "for idx in unique_idxs", from descriptor i on.
RECURSIVE check_idxs(_, _, _, _, _, _)
check_idxs(idxs, i, rows, self, exclude, errors) ==
    IF i > Len(idxs) THEN Returned(errors)
    ELSE LET idx == idxs[i] IN
         IF ~IsQ(idx.where) THEN Raised("ImproperlyConfigured")
         ELSE IF missing_fields(idx) # {} THEN Raised("RuntimeError")
         ELSE IF Excluded(idx, exclude) THEN check_idxs(idxs, i + 1, rows, self, exclude, errors)
         ELSE IF Skip(idx, self) THEN check_idxs(idxs, i + 1, rows, self, exclude, errors)
         ELSE IF conflict(idx, rows, self) # {}
              THEN check_idxs(idxs, i + 1, rows, self, exclude,
                              DictAppend(errors, ErrorKey(idx),
                                         unique_error_message(Range(idx.fields))))
              ELSE check_idxs(idxs, i + 1, rows, self, exclude, errors)

validate_partial_unique(decl, rows, self, exclude) ==
    check_idxs(unique_idxs(decl), 1, rows, self, exclude, EmptyDict)

(***************************************************************************)
(* Model.validate_unique of the framework: the standard unique checks,     *)
(* here those of Meta.unique_together.                                     *)
(***************************************************************************)
RECURSIVE perform_unique_checks(_, _, _, _, _, _)
perform_unique_checks(checks, i, rows, self, exclude, errors) ==
    IF i > Len(checks) THEN Returned(errors)
    ELSE LET unique_check == Range(checks[i])
             found == {r \in rows : /\ \A f \in unique_check : r[f] = self[f]
                                    /\ (self.pk # None => r.pk # self.pk)}
         IN
         IF unique_check \cap exclude # {} \/ (\E f \in unique_check : self[f] = None)
              \/ found = {}
         THEN perform_unique_checks(checks, i + 1, rows, self, exclude, errors)
         ELSE perform_unique_checks(checks, i + 1, rows, self, exclude,
                  DictAppend(errors,
                             IF Len(checks[i]) = 1 THEN checks[i][1] ELSE NON_FIELD_ERRORS,
                             unique_error_message(unique_check)))

\* super(ValidatePartialUniqueMixin, self).validate_unique(exclude=exclude)
super_validate_unique(decl, rows, self, exclude) ==
    perform_unique_checks(decl.unique_together, 1, rows, self, exclude, EmptyDict)

(***************************************************************************)
(* ValidatePartialUniqueMixin.validate_unique                              *)
(***************************************************************************)
\* "if getattr(settings, 'DJANGO_PARTIAL_INDEX_FORCE_VALIDATION', True): exclude = None"
ForcedExcludeKept(force, exclude) == exclude

ForcedExclude(force, exclude) == IF force THEN {} ELSE exclude

\* "except ValidationError as e: errors.update(e.error_dict)"
CaughtErrors(outcome) ==
    IF outcome.kind = "ValidationError" THEN outcome.errors ELSE EmptyDict

validate_unique(decl, rows, self, exclude, force) ==
    LET base    == super_validate_unique(decl, rows, self, exclude)
        errors1 == DictUpdate(EmptyDict, CaughtErrors(base))
        partial == validate_partial_unique(decl, rows, self, ForcedExclude(force, exclude))
        errors2 == DictUpdate(errors1, CaughtErrors(partial))
    IN  IF partial.kind \in {"ImproperlyConfigured", "RuntimeError"}
        THEN Raised(partial.kind)
        ELSE Returned(errors2)

(***************************************************************************)
(* The database: the indexes that create_sql creates, enforced on writes.  *)
(***************************************************************************)
\* PartialIndex.get_where_condition_for_vendor
get_where_condition_generic(idx, vendor) == idx.where

get_where_condition_for_vendor(idx, vendor) ==
    IF vendor = "postgresql"
    THEN (IF idx.where_postgresql # "" THEN TextWhere(idx.where_postgresql) ELSE idx.where)
    ELSE IF vendor = "sqlite"
    THEN (IF idx.where_sqlite # "" THEN TextWhere(idx.where_sqlite) ELSE idx.where)
    ELSE [kind |-> "ValueError", text |-> "Should never happen", q |-> NoQ]

\* The predicate of the index in the database: "WHERE %(where)s".
IndexCondition(idx, vendor) ==
    LET where == get_where_condition_for_vendor(idx, vendor)
    IN  IF IsQ(where) THEN where.q ELSE TextMeaning(where.text)

\* "parameters['unique'] = ' UNIQUE' if self.unique else ''"
IndexUniqueDropped(idx) == FALSE

IndexUnique(idx) == idx.unique

\* The columns of the index.
IndexColumns(idx) == {fields_orders(idx)[i][1] : i \in 1 .. Len(idx.fields)}

\* Two rows that a unique index on `columns` holds apart.
SameKey(r1, r2, columns) ==
    /\ r1.pk # r2.pk
    /\ \A c \in columns : r1[c] # None /\ r1[c] = r2[c]

\* The rows violate the unique partial index idx.
ViolatesIndex(idx, vendor, rows) ==
    /\ IndexUnique(idx)
    /\ \E r1, r2 \in FilterWhere(rows, IndexCondition(idx, vendor)) :
           SameKey(r1, r2, IndexColumns(idx))

\* The rows violate a unique_together constraint.
ViolatesUniqueTogether(unique_check, rows) ==
    \E r1, r2 \in rows : SameKey(r1, r2, Range(unique_check))

\* The database accepts a write that leaves the table with `rows`.
DbAccepts(decl, vendor, rows) ==
    /\ \A i \in 1 .. Len(decl.indexes) : ~ViolatesIndex(decl.indexes[i], vendor, rows)
    /\ \A i \in 1 .. Len(decl.unique_together) :
           ~ViolatesUniqueTogether(decl.unique_together[i], rows)

\* The table after self is saved with primary key pk: an INSERT, or an
\* UPDATE of the row with that primary key.
Written(rows, self, pk) ==
    {r \in rows : r.pk # pk} \cup {[self EXCEPT !.pk = pk]}

(***************************************************************************)
(* PartialIndex.__init__ (partial_index/__init__.py): predicates are texts *)
(* and `unique` is whatever Python value the declaration passes.           *)
(***************************************************************************)
\* The values passed as `unique`, by their Python literals; None is the
\* default of the argument.
UniqueArgs == {"True", "False", "None", "1", "0", "'yes'"}

\* Python's v == b for b one of True and False: the integers 1 and 0 are
\* equal to True and False.
PyEquals(v, b) ==
    \/ b = "True" /\ v \in {"True", "1"}
    \/ b = "False" /\ v \in {"False", "0"}

\* "unique not in [True, False]"
NotInTrueFalse(unique) == ~(PyEquals(unique, "True") \/ PyEquals(unique, "False"))

\* The truth value of a Python value passed as `unique`.
Truthy(unique) == unique \in {"True", "1", "'yes'"}

\* "where_postgresql == where_sqlite"
SameDialectTextsNever(where_postgresql, where_sqlite) == FALSE

SameDialectTexts(where_postgresql, where_sqlite) == where_postgresql = where_sqlite

\* No descriptor: the constructor raised.
NoDescriptor == PartialIndex(<<>>, "None", NoWhere, "", "")

ValueError(message) == [kind |-> "ValueError", message |-> message, idx |-> NoDescriptor]

\* PartialIndex(fields=fields, unique=unique, where=where,
\*              where_postgresql=where_postgresql, where_sqlite=where_sqlite)
__init__(fields, unique, where, where_postgresql, where_sqlite) ==
    IF NotInTrueFalse(unique)
    THEN ValueError("Unique must be True or False")
    ELSE IF where # "" /\ (where_postgresql # "" \/ where_sqlite # "")
    THEN ValueError("If providing a single where predicate, must not provide where_postgresql or where_sqlite")
    ELSE IF where = "" /\ where_postgresql = "" /\ where_sqlite = ""
    THEN ValueError("At least one where predicate must be provided")
    ELSE IF where = "" /\ SameDialectTexts(where_postgresql, where_sqlite)
    THEN ValueError("If providing a separate where_postgresql and where_sqlite, then they must be different.")
    ELSE [kind |-> "PartialIndex", message |-> "",
          idx |-> PartialIndex(fields, unique, TextWhere(where),
                               where_postgresql, where_sqlite)]

(***************************************************************************)
(* PartialIndex.set_name_with_model                                        *)
(***************************************************************************)
\* The longest table or column name of the owning model.
MaxNameLen == 12

\* PartialIndex.suffix
suffix == "partial"

\* PartialIndex.max_name_length
max_name_length == 34

\* The hex digits Index._hash_generator keeps of the md5 digest.
HashLength == 6

\* Python's s[:n]
PrefixWhole(s, n) == s

Prefix(s, n) == SubSeq(s, 1, IF Len(s) < n THEN Len(s) ELSE n)

\* str(self.unique)
Str(unique) == IF unique = "'yes'" THEN "yes" ELSE unique

\* The texts of a list, one after the other.
RECURSIVE Concat(_)
Concat(texts) == IF Len(texts) = 0 THEN "" ELSE Head(texts) \o Concat(Tail(texts))

\* Index._hash_generator(*args): the md5 digest of the arguments fed to it
\* one after the other, cut to HashLength hex digits.  The digest is
\* written as the bytes it is the digest of: a hash without collisions.
hash_generator(args) == Concat(args)

\* "[str(self.unique), self.where, self.where_postgresql, self.where_sqlite]"
name_hash_extra_data_none(idx) == <<>>

name_hash_extra_data(idx) ==
    <<Str(idx.unique), idx.where.text, idx.where_postgresql, idx.where_sqlite>>

\* An index name: '%s_%s_%s' % (table part, column part, '%s_%s' % (hash, suffix)).
\* `head` is the text before the hash and `tail` the text after it.
Name(head, hashed, digits, tail) ==
    [head |-> head, hashed |-> hashed, digits |-> digits, tail |-> tail]

\* The name of a descriptor that was never named: ''.
NoName == Name("", "", 0, "")

\* len(self.name)
NameLength(name) == Len(name.head) + name.digits + Len(name.tail)

\* The name as text, its hash digits written md5(...).
NameText(name) ==
    IF name.digits = 0 THEN name.head \o name.tail
    ELSE name.head \o "md5(" \o name.hashed \o ")" \o name.tail

\* The owning model: its table and the columns of its fields.
Owner(db_table, column_a) ==
    [db_table |-> db_table, column |-> [f \in FieldNames |-> IF f = "a" THEN column_a ELSE f]]

\* "column_names = [model._meta.get_field(field_name).column for ...]"
column_names(idx, owner) ==
    [i \in 1 .. Len(idx.fields) |-> owner.column[fields_orders(idx)[i][1]]]

\* "column_names_with_order"
column_names_with_order(idx, owner) ==
    [i \in 1 .. Len(idx.fields) |->
        IF fields_orders(idx)[i][2] # ""
        THEN "-" \o column_names(idx, owner)[i]
        ELSE column_names(idx, owner)[i]]

\* "hash_data"
hash_data(idx, owner) ==
    <<owner.db_table>> \o column_names_with_order(idx, owner) \o <<suffix>>
        \o name_hash_extra_data(idx)

\* Index.check_name: a name that starts with an underscore or a digit gets
\* the letter D for its first character.
check_name(name) ==
    IF Len(name.head) > 0 /\ SubSeq(name.head, 1, 1) \in {"_", "0", "1", "2", "3", "4", "5", "6", "7", "8", "9"}
    THEN [name EXCEPT !.head = "D" \o SubSeq(name.head, 2, Len(name.head))]
    ELSE name

\* set_name_with_model(model): the name the descriptor is left with, and
\* how the call ended.  self.name is assigned before the assertion.
set_name_with_model(idx, owner) ==
    LET name == Name(Prefix(owner.db_table, 11) \o "_"
                         \o Prefix(column_names(idx, owner)[1], 7) \o "_",
                     hash_generator(hash_data(idx, owner)), HashLength,
                     "_" \o suffix)
    IN  IF NameLength(name) <= max_name_length
        THEN [kind |-> "ok", name |-> check_name(name)]
        ELSE [kind |-> "AssertionError", name |-> name]

(***************************************************************************)
(* PartialIndex.create_sql                                                 *)
(***************************************************************************)
\* The vendors of the connections a project can have.
ConnectionVendors == Vendors \cup {"mysql"}

\* "v not in cls.sql_create_index", negated
SupportedAlways(v) == TRUE

Supported(v) == v \in Vendors

\* schema_editor.quote_name
quote_name(text) == "\"" \o text \o "\""

\* "('%s %s' % (quote_name(field.column), order)).strip()"
column_sql(idx, owner, i) ==
    IF fields_orders(idx)[i][2] = ""
    THEN quote_name(column_names(idx, owner)[i])
    ELSE quote_name(column_names(idx, owner)[i]) \o " " \o fields_orders(idx)[i][2]

\* "', '.join(columns)", from the i-th column on
RECURSIVE join_columns(_, _, _)
join_columns(idx, owner, i) ==
    IF i > Len(idx.fields) THEN ""
    ELSE IF i = Len(idx.fields) THEN column_sql(idx, owner, i)
    ELSE column_sql(idx, owner, i) \o ", " \o join_columns(idx, owner, i + 1)

\* "parameters['unique'] = ' UNIQUE' if self.unique else ''"
unique_parameter_never(idx) == ""

unique_parameter(idx) == IF Truthy(idx.unique) THEN " UNIQUE" ELSE ""

\* get_sql_create_template_values(model, schema_editor, using)
get_sql_create_template_values(idx, name, owner, vendor, using, extra) ==
    IF ~Supported(vendor)
    THEN [kind |-> "ValueError", message |-> "Database vendor is not supported"]
    ELSE IF get_where_condition_for_vendor(idx, vendor).kind = "ValueError"
    THEN [kind |-> "ValueError", message |-> "Should never happen"]
    ELSE [kind |-> "parameters", message |-> "",
          table |-> quote_name(owner.db_table),
          name |-> quote_name(NameText(name)),
          columns |-> join_columns(idx, owner, 1),
          using |-> using,
          extra |-> extra,
          unique |-> unique_parameter(idx),
          where |-> get_where_condition_for_vendor(idx, vendor).text]

\* sql_create_index[vendor] % parameters
sql_create_index(vendor, parameters) ==
    "CREATE" \o parameters.unique \o " INDEX " \o parameters.name
        \o " ON " \o parameters.table \o parameters.using
        \o " (" \o parameters.columns \o ")"
        \o (IF vendor = "postgresql" THEN parameters.extra ELSE "")
        \o " WHERE " \o parameters.where

\* create_sql(model, schema_editor, using)
create_sql(idx, name, owner, vendor, using, extra) ==
    IF ~Supported(vendor)
    THEN [kind |-> "ValueError", message |-> "Database vendor is not supported", sql |-> ""]
    ELSE LET parameters == get_sql_create_template_values(idx, name, owner, vendor, using, extra)
         IN  IF parameters.kind = "ValueError"
             THEN [kind |-> "ValueError", message |-> parameters.message, sql |-> ""]
             ELSE [kind |-> "ok", message |-> "",
                   sql |-> sql_create_index(vendor, parameters)]

(***************************************************************************)
(* PartialIndex.deconstruct, and the construction of a descriptor from the *)
(* keyword arguments it returns (as migrations do).                        *)
(***************************************************************************)
\* The kwargs of deconstruct(): fields and name from Index.deconstruct,
\* then "kwargs['unique'] = self.unique" ... "kwargs['where_sqlite'] = ..."
deconstruct_without_where_sqlite(idx, name) ==
    [fields |-> idx.fields, name |-> name, unique |-> idx.unique,
     where |-> idx.where.text, where_postgresql |-> idx.where_postgresql,
     where_sqlite |-> ""]

deconstruct(idx, name) ==
    [fields |-> idx.fields, name |-> name, unique |-> idx.unique,
     where |-> idx.where.text, where_postgresql |-> idx.where_postgresql,
     where_sqlite |-> idx.where_sqlite]

\* "super(PartialIndex, self).__init__(fields=fields, name=name)": a name
\* that is given must be one check_name leaves alone and be no longer than
\* max_name_length.
NameRejected(name) ==
    /\ name # NoName
    /\ check_name(name) # name \/ NameLength(name) > max_name_length

\* PartialIndex(**kwargs): the descriptor and its name, or the ValueError.
construct_from(kwargs) ==
    LET made == __init__(kwargs.fields, kwargs.unique, kwargs.where,
                         kwargs.where_postgresql, kwargs.where_sqlite)
    IN  IF made.kind # "PartialIndex"
        THEN [kind |-> made.kind, message |-> made.message, idx |-> made.idx,
              name |-> NoName]
        ELSE IF NameRejected(kwargs.name)
        THEN [kind |-> "ValueError", message |-> "Index names cannot ...",
              idx |-> NoDescriptor, name |-> NoName]
        ELSE [kind |-> "PartialIndex", message |-> "", idx |-> made.idx,
              name |-> kwargs.name]

(***************************************************************************)
(* The state.                                                              *)
(***************************************************************************)
VARIABLES
    model,      \* the model class: an index of Declarations
    vendor,     \* the vendor of the database connection
    store,      \* the rows of the model's table
    call,       \* the validation call of the client and its outcome
    writers,    \* the concurrent writers
    descriptor  \* the descriptor a declaration constructs, names and creates

vars == <<model, vendor, store, call, writers, descriptor>>

decl == Declarations[model]

\* The exclusion sets a form hands to validation.
Excludes == {{}, {"a"}, {"d"}}

\* The instances a client can validate: a new one, or a stored row with
\* any of its fields changed.
Candidates(rows) == {i \in Instances : i.pk = None \/ \E r \in rows : r.pk = i.pk}

NoInstance == [pk |-> None, a |-> None, b |-> 1, d |-> None]

Idle(saved) ==
    [pc |-> "idle", entry |-> "", self |-> NoInstance, exclude |-> {}, force |-> TRUE,
     outcome |-> Raised(""), saved |-> saved]

Writers == {1, 2}

WriterStart ==
    [pc |-> "start", self |-> NoInstance, outcome |-> Raised(""), saved |-> ""]

\* The texts a declaration gives as `where` and as the dialect predicates.
Texts == {"", "xy"}
DialectTexts == {"", "x", "y"}

\* The field lists a declaration gives.
FieldLists == {<<"-a", "b">>, <<"b", "a">>}

\* Names of tables and columns, up to MaxNameLen characters long.
LongTable == "testapp_roombookingq"
LongColumn == "room_number_id"
Owners ==
    {Owner(Prefix(LongTable, n), Prefix(LongColumn, n)) : n \in {2, 7, 11, MaxNameLen}}
        \cup {Owner("_legacy", "user_id"), Owner("2fa", "user_id")}

\* The `using` arguments of create_sql and the tablespace clauses.
Usings == {"", " USING gin"}
Extras == {"", " TABLESPACE ts"}

NoArgs == [fields |-> <<>>, unique |-> "None", where |-> "",
           where_postgresql |-> "", where_sqlite |-> ""]

NoOutcome == [kind |-> "", message |-> "", sql |-> ""]

\* Nothing is declared yet.
NoDeclaration ==
    [pc |-> "start", op |-> "", args |-> NoArgs, owner |-> Owner("", ""),
     idx |-> NoDescriptor, name |-> NoName, vendor |-> "", using |-> "", extra |-> "",
     outcome |-> NoOutcome]

Init ==
    /\ model \in 1 .. Len(Declarations)
    /\ vendor = "sqlite"
    /\ store = {}
    /\ call = Idle("")
    /\ writers = [w \in Writers |-> WriterStart]
    /\ descriptor = NoDeclaration

(***************************************************************************)
(* The client: one validation call at a time, then a save or not.          *)
(***************************************************************************)
\* instance.validate_unique(exclude) under the setting
\* DJANGO_PARTIAL_INDEX_FORCE_VALIDATION = force
ValidateUnique(self, exclude, force) ==
    /\ call.pc = "idle"
    /\ call' = [pc |-> "validated", entry |-> "validate_unique", self |-> self,
                exclude |-> exclude, force |-> force,
                outcome |-> validate_unique(decl, store, self, exclude, force),
                saved |-> ""]
    /\ UNCHANGED <<model, vendor, store, writers, descriptor>>

\* instance.validate_partial_unique(exclude)
ValidatePartialUniqueSaving(self, exclude) ==
    /\ call.pc = "idle"
    /\ call' = [pc |-> "validated", entry |-> "validate_partial_unique", self |-> self,
                exclude |-> exclude, force |-> TRUE,
                outcome |-> validate_partial_unique(decl, store, self, exclude),
                saved |-> ""]
    /\ store' = IF self.pk = None THEN store ELSE Written(store, self, self.pk)
    /\ UNCHANGED <<model, vendor, writers, descriptor>>

ValidatePartialUnique(self, exclude) ==
    /\ call.pc = "idle"
    /\ call' = [pc |-> "validated", entry |-> "validate_partial_unique", self |-> self,
                exclude |-> exclude, force |-> TRUE,
                outcome |-> validate_partial_unique(decl, store, self, exclude),
                saved |-> ""]
    /\ UNCHANGED <<model, vendor, store, writers, descriptor>>

\* instance.save(): the database applies the write or raises IntegrityError.
Save(pk) ==
    /\ call.pc = "validated"
    /\ IF call.self.pk = None THEN pk \notin {r.pk : r \in store} ELSE pk = call.self.pk
    /\ LET rows == Written(store, call.self, pk) IN
       IF DbAccepts(decl, vendor, rows)
       THEN store' = rows /\ call' = Idle("ok")
       ELSE store' = store /\ call' = Idle("IntegrityError")
    /\ UNCHANGED <<model, vendor, writers, descriptor>>

\* The client drops the instance without saving it.
Discard ==
    /\ call.pc = "validated"
    /\ call' = Idle("")
    /\ UNCHANGED <<model, vendor, store, writers, descriptor>>

Next ==
    \/ \E self \in Candidates(store), exclude \in Excludes, force \in BOOLEAN :
           ValidateUnique(self, exclude, force)
    \/ \E self \in Candidates(store), exclude \in Excludes :
           ValidatePartialUnique(self, exclude)
    \/ \E pk \in PKs : Save(pk)
    \/ Discard

Spec == Init /\ [][Next]_vars

(***************************************************************************)
(* Concurrent writers: each runs validate_unique on a new instance and     *)
(* then saves it, the steps of the writers interleaving.  The database     *)
(* applies each INSERT atomically.                                         *)
(***************************************************************************)
\* Writer w validates a new instance against the rows stored now.
PreCheck(w, self) ==
    /\ writers[w].pc = "start"
    /\ self.pk = None
    /\ LET outcome == validate_unique(decl, store, self, {}, TRUE) IN
       writers' = [writers EXCEPT ![w] =
                      [pc |-> IF outcome.kind = "ok" THEN "checked" ELSE "rejected",
                       self |-> self, outcome |-> outcome, saved |-> ""]]
    /\ UNCHANGED <<model, vendor, store, call, descriptor>>

\* Writer w, its validation passed, inserts the instance.
Write(w) ==
    /\ writers[w].pc = "checked"
    /\ \E pk \in PKs \ {r.pk : r \in store} :
           LET rows == Written(store, writers[w].self, pk) IN
           IF DbAccepts(decl, vendor, rows)
           THEN /\ store' = rows
                /\ writers' = [writers EXCEPT ![w].pc = "done", ![w].saved = "ok"]
           ELSE /\ store' = store
                /\ writers' = [writers EXCEPT ![w].pc = "done",
                                              ![w].saved = "IntegrityError"]
    /\ UNCHANGED <<model, vendor, call, descriptor>>

NextWriters ==
    \/ \E w \in Writers, self \in Instances : PreCheck(w, self)
    \/ \E w \in Writers : Write(w)

SpecWriters == Init /\ [][NextWriters]_vars

(***************************************************************************)
(* A declaration: a descriptor is constructed for a model, named and its   *)
(* CREATE INDEX statement generated.                                       *)
(***************************************************************************)
\* PartialIndex(fields=..., unique=..., where=..., ...) in the Meta of owner
Construct(fields, unique, where, where_postgresql, where_sqlite, owner) ==
    /\ descriptor.pc = "start"
    /\ LET made == __init__(fields, unique, where, where_postgresql, where_sqlite) IN
       descriptor' =
           [NoDeclaration EXCEPT
               !.pc = IF made.kind = "PartialIndex" THEN "constructed" ELSE "rejected",
               !.op = "__init__",
               !.args = [fields |-> fields, unique |-> unique, where |-> where,
                         where_postgresql |-> where_postgresql,
                         where_sqlite |-> where_sqlite],
               !.owner = owner,
               !.idx = made.idx,
               !.outcome = [kind |-> made.kind, message |-> made.message, sql |-> ""]]
    /\ UNCHANGED <<model, vendor, store, call, writers>>

\* idx.set_name_with_model(owner)
SetNameWithModel ==
    /\ descriptor.pc = "constructed"
    /\ LET named == set_name_with_model(descriptor.idx, descriptor.owner) IN
       descriptor' =
           [descriptor EXCEPT
               !.op = "set_name_with_model",
               !.name = named.name,
               !.vendor = "", !.using = "", !.extra = "",
               !.outcome = [kind |-> named.kind, message |-> "", sql |-> ""]]
    /\ UNCHANGED <<model, vendor, store, call, writers>>

\* idx.create_sql(owner, schema_editor, using) on a connection of vendor v
CreateSql(v, using, extra) ==
    /\ descriptor.pc = "constructed"
    /\ descriptor' =
           [descriptor EXCEPT
               !.op = "create_sql",
               !.vendor = v, !.using = using, !.extra = extra,
               !.outcome = create_sql(descriptor.idx, descriptor.name, descriptor.owner,
                                      v, using, extra)]
    /\ UNCHANGED <<model, vendor, store, call, writers>>

\* The declaration is dropped or redefined.
Redefine ==
    /\ descriptor.pc \in {"constructed", "rejected"}
    /\ descriptor' = NoDeclaration
    /\ UNCHANGED <<model, vendor, store, call, writers>>

NextIndex ==
    \/ \E fields \in FieldLists, unique \in UniqueArgs, where \in Texts,
          where_postgresql \in DialectTexts, where_sqlite \in DialectTexts,
          owner \in Owners :
           Construct(fields, unique, where, where_postgresql, where_sqlite, owner)
    \/ SetNameWithModel
    \/ \E v \in ConnectionVendors, using \in Usings, extra \in Extras :
           CreateSql(v, using, extra)
    \/ Redefine

InitIndex == Init /\ model = 1

SpecIndex == InitIndex /\ [][NextIndex]_vars

(***************************************************************************)
(* A declaration that is also taken apart and built again from its keyword *)
(* arguments.                                                              *)
(***************************************************************************)
\* PartialIndex(**idx.deconstruct()[2])
Reconstruct ==
    /\ descriptor.pc = "constructed"
    /\ LET kwargs == deconstruct(descriptor.idx, descriptor.name)
           made   == construct_from(kwargs)
       IN  descriptor' =
               [descriptor EXCEPT
                   !.op = "deconstruct",
                   !.vendor = "", !.using = "", !.extra = "",
                   !.outcome = [kind |-> made.kind, message |-> made.message, sql |-> "",
                                kwargs |-> kwargs, idx |-> made.idx, name |-> made.name]]
    /\ UNCHANGED <<model, vendor, store, call, writers>>

NextReconstruct ==
    \/ \E fields \in FieldLists, unique \in UniqueArgs, where \in Texts,
          where_postgresql \in DialectTexts, where_sqlite \in DialectTexts,
          owner \in Owners :
           Construct(fields, unique, where, where_postgresql, where_sqlite, owner)
    \/ SetNameWithModel
    \/ Reconstruct
    \/ Redefine

SpecReconstruct == InitIndex /\ [][NextReconstruct]_vars

(***************************************************************************)
(* The client repeats a validation call: the same entry point, on the      *)
(* instance as the first call left it, with the same arguments and against *)
(* the rows stored now.                                                    *)
(***************************************************************************)
Revalidate ==
    /\ call.pc = "validated"
    /\ call' = [call EXCEPT
                   !.pc = "revalidated",
                   !.outcome =
                       IF call.entry = "validate_unique"
                       THEN validate_unique(decl, store, call.self, call.exclude, call.force)
                       ELSE validate_partial_unique(decl, store, call.self, call.exclude)]
    /\ UNCHANGED <<model, vendor, store, writers, descriptor>>

\* The client drops the instance after the repeated call.
DiscardRevalidated ==
    /\ call.pc = "revalidated"
    /\ call' = Idle("")
    /\ UNCHANGED <<model, vendor, store, writers, descriptor>>

NextRepeat ==
    \/ \E self \in Candidates(store), exclude \in Excludes, force \in BOOLEAN :
           ValidateUnique(self, exclude, force)
    \/ \E self \in Candidates(store), exclude \in Excludes :
           ValidatePartialUnique(self, exclude)
    \/ Revalidate
    \/ \E pk \in PKs : Save(pk)
    \/ Discard
    \/ DiscardRevalidated

SpecRepeat == Init /\ [][NextRepeat]_vars

(***************************************************************************)
(* Notions the properties share.                                           *)
(***************************************************************************)
Validated == call.pc = "validated"

\* The call ran to its end: it returned or raised a validation error.
Completed == call.outcome.kind \in {"ok", "ValidationError"}

\* The unique descriptors of the model class, in declared order.
UniqueDescriptors == unique_idxs(decl)

\* The descriptor's predicate is structured and its fields are the model's.
WellFormed(idx) == IsQ(idx.where) /\ mentioned_fields(idx) \subseteq FieldNames

\* The error the call raised holds an entry for descriptor idx.
Reported(idx) ==
    /\ call.outcome.kind = "ValidationError"
    /\ ErrorKey(idx) \in DOMAIN call.outcome.errors
    /\ \E j \in 1 .. Len(call.outcome.errors[ErrorKey(idx)]) :
           call.outcome.errors[ErrorKey(idx)][j] = unique_error_message(Range(idx.fields))

\* Row r is inside the partial index idx.
InIndex(idx, r) == Eval(idx.where.q, r) = "T"

\* The rows have equal, non-NULL values on every indexed field.
SameIndexed(idx, r1, r2) == \A f \in Range(idx.fields) : r1[f] # None /\ r1[f] = r2[f]

\* The rows agree on every field the descriptor indexes or its predicate
\* mentions (NULL agreeing with NULL off the indexed fields).
SameRelevant(idx, r1, r2) ==
    /\ SameIndexed(idx, r1, r2)
    /\ \A f \in mentioned_fields(idx) : r1[f] = r2[f]

\* The database's partial unique index idx would reject the write of self.
IndexRejects(idx, self) ==
    /\ InIndex(idx, self)
    /\ \E r \in store : r.pk # self.pk /\ InIndex(idx, r) /\ SameIndexed(idx, self, r)

\* A call of validate_partial_unique that left no relevant field of idx out.
DirectCall(idx) ==
    /\ Validated /\ Completed
    /\ call.entry = "validate_partial_unique"
    /\ call.exclude \cap mentioned_fields(idx) = {}

\* The predicate is one field-to-literal test: the field is null, equals a
\* literal, or exceeds a literal.
FieldToLiteral(q) == q.op \in {"isnull", "exact", "gt"}

(***************************************************************************)
(* C1  Soft-delete scenario.  For a unique descriptor whose predicate is   *)
(* one field-to-literal test and a new candidate that has non-NULL indexed *)
(* fields and satisfies the predicate, validate_partial_unique reports a   *)
(* conflict for the descriptor if and only if a stored row has equal       *)
(* values on every indexed field and satisfies the predicate; stored rows  *)
(* that match on the indexed fields and fail the predicate never cause a   *)
(* conflict.                                                               *)
(***************************************************************************)
C1_SoftDeleteConflictIffLiveDuplicate ==
    \A i \in 1 .. Len(UniqueDescriptors) :
        LET idx == UniqueDescriptors[i] IN
        (/\ WellFormed(idx) /\ DirectCall(idx)
         /\ FieldToLiteral(idx.where.q)
         /\ call.self.pk = None
         /\ InIndex(idx, call.self)
         /\ \A f \in Range(idx.fields) : call.self[f] # None)
        => (Reported(idx) <=>
                \E r \in store : InIndex(idx, r) /\ SameIndexed(idx, call.self, r))

(***************************************************************************)
(* C2  The pre-check decides as the database does.  For every unique       *)
(* descriptor with a structured predicate, every store and every           *)
(* candidate, validate_partial_unique reports a conflict for the           *)
(* descriptor exactly when the candidate satisfies the predicate, has      *)
(* non-NULL indexed values, and another stored row that satisfies the      *)
(* predicate has equal indexed values.                                     *)
(***************************************************************************)
C2_PreCheckMatchesDatabase ==
    \A i \in 1 .. Len(UniqueDescriptors) :
        LET idx == UniqueDescriptors[i] IN
        (WellFormed(idx) /\ DirectCall(idx))
        => (Reported(idx) <=> IndexRejects(idx, call.self))

\* Another stored row is inside the index and agrees with self on every
\* relevant field, none of the indexed ones being NULL.
DuplicatesAnother(idx, self) ==
    \E r \in store : r.pk # self.pk /\ InIndex(idx, r) /\ SameRelevant(idx, self, r)

(***************************************************************************)
(* C4  Update self-exclusion.  Validating a stored row as an update never  *)
(* reports a conflict that its own stored copy causes: a reported conflict *)
(* has another stored row behind it.  Updating a row so that it duplicates *)
(* another in-index row is reported.                                       *)
(***************************************************************************)
C4_UpdateSelfExclusion ==
    \A i \in 1 .. Len(UniqueDescriptors) :
        LET idx == UniqueDescriptors[i] IN
        (/\ WellFormed(idx) /\ DirectCall(idx)
         /\ \E r \in store : r.pk = call.self.pk)
        => /\ Reported(idx) =>
                \E r \in store : /\ r.pk # call.self.pk
                                 /\ InIndex(idx, r) /\ SameIndexed(idx, call.self, r)
           /\ DuplicatesAnother(idx, call.self) => Reported(idx)

(***************************************************************************)
(* C5  NULL-skip.  If the candidate's value of an indexed field is NULL,   *)
(* the pre-check reports no conflict for the descriptor, whatever rows are *)
(* stored.  A NULL in a field that only the predicate mentions does not    *)
(* skip the check: a duplicate of another in-index row is reported.        *)
(***************************************************************************)
C5_NullSkip ==
    Validated =>
    \A i \in 1 .. Len(UniqueDescriptors) :
        LET idx == UniqueDescriptors[i] IN
        /\ (\E f \in Range(idx.fields) : call.self[StripOrder(f)] = None) => ~Reported(idx)
        /\ (/\ WellFormed(idx) /\ DirectCall(idx)
            /\ \E f \in mentioned_fields(idx) \ Range(idx.fields) : call.self[f] = None
            /\ DuplicatesAnother(idx, call.self))
           => Reported(idx)

\* The candidate has NULL in the indexed field a, a stored row has the same
\* indexed values (NULL in a too) and is inside the index, and the call
\* reports nothing.
C5_Witness ==
    /\ decl = RoomBookingQ
    /\ DirectCall(UniqueDescriptors[1])
    /\ call.self.a = None /\ call.self.d = None
    /\ \E r \in store : r.pk # call.self.pk /\ r.a = None /\ r.b = call.self.b /\ r.d = None
    /\ call.outcome.kind = "ok"

(***************************************************************************)
(* C6  Exclusion-skip, as first stated: whichever of validate_unique and   *)
(* validate_partial_unique is called, an exclusion set that holds a        *)
(* relevant field of a descriptor keeps the pre-check from reporting a     *)
(* conflict for it.                                                        *)
(***************************************************************************)
C6_ExclusionSkipAnyEntry ==
    Validated =>
    \A i \in 1 .. Len(UniqueDescriptors) :
        LET idx == UniqueDescriptors[i] IN
        call.exclude \cap mentioned_fields(idx) # {} => ~Reported(idx)

(***************************************************************************)
(* C6  Exclusion-skip, amended: the exclusion set skips the descriptor     *)
(* when validate_partial_unique is called with it, or validate_unique is   *)
(* called with it under DJANGO_PARTIAL_INDEX_FORCE_VALIDATION = False.     *)
(***************************************************************************)
C6_ExclusionSkip ==
    (Validated /\ (call.entry = "validate_partial_unique" \/ ~call.force)) =>
    \A i \in 1 .. Len(UniqueDescriptors) :
        LET idx == UniqueDescriptors[i] IN
        call.exclude \cap mentioned_fields(idx) # {} => ~Reported(idx)

\* The predicate's field is excluded, the database would reject the
\* candidate, and validate_partial_unique reports nothing.
C6_Witness ==
    /\ decl = RoomBookingQ
    /\ Validated /\ call.entry = "validate_partial_unique"
    /\ call.exclude = {"d"}
    /\ IndexRejects(UniqueDescriptors[1], call.self)
    /\ call.outcome.kind = "ok"

Violated(idx) ==
    check_idxs(<<idx>>, 1, store, call.self, call.exclude, EmptyDict).kind = "ValidationError"

\* The entries of the violated descriptors with key k, in declared order.
ExpectedEntries(k) ==
    LET sel == SelectSeq(UniqueDescriptors, LAMBDA idx : Violated(idx) /\ ErrorKey(idx) = k)
    IN  [j \in 1 .. Len(sel) |-> unique_error_message(Range(sel[j].fields))]

C8_Accumulation ==
    (Validated /\ Completed /\ call.entry = "validate_partial_unique") =>
    \A k \in FieldNames \cup {NON_FIELD_ERRORS} :
        IF Len(ExpectedEntries(k)) = 0
        THEN k \notin DOMAIN call.outcome.errors
        ELSE k \in DOMAIN call.outcome.errors /\ call.outcome.errors[k] = ExpectedEntries(k)

\* Two descriptors on several fields are violated at once and the error
\* holds two different form-level entries.
C8_Witness ==
    /\ decl = Label
    /\ Validated /\ call.entry = "validate_partial_unique"
    /\ Violated(UniqueDescriptors[1]) /\ Violated(UniqueDescriptors[2])
    /\ IndexRejects(UniqueDescriptors[1], call.self)
    /\ IndexRejects(UniqueDescriptors[2], call.self)
    /\ call.outcome.kind = "ValidationError"
    /\ Len(call.outcome.errors[NON_FIELD_ERRORS]) = 2
    /\ call.outcome.errors[NON_FIELD_ERRORS][1] # call.outcome.errors[NON_FIELD_ERRORS][2]

(***************************************************************************)
(* C9  Error merging.  validate_unique runs the pre-check also when the    *)
(* base validation has failed, and the error it raises holds every entry   *)
(* of the base validation and every entry of the pre-check, also when both *)
(* have entries under the same key.                                        *)
(***************************************************************************)
\* Every entry of the error dictionary d is in the outcome, under its key.
Kept(d) ==
    \A k \in DOMAIN d :
        /\ k \in DOMAIN call.outcome.errors
        /\ \A j \in 1 .. Len(d[k]) :
               \E n \in 1 .. Len(call.outcome.errors[k]) : call.outcome.errors[k][n] = d[k][j]

C9_ErrorMerging ==
    (Validated /\ Completed /\ call.entry = "validate_unique") =>
    /\ Kept(super_validate_unique(decl, store, call.self, call.exclude).errors)
    /\ Kept(validate_partial_unique(decl, store, call.self,
                                    ForcedExclude(call.force, call.exclude)).errors)

(***************************************************************************)
(* C10  Raw-text predicate, as first stated: on a model with a unique      *)
(* descriptor whose predicate is raw text, every validation call fails     *)
(* with ImproperlyConfigured, whatever the other descriptors are.          *)
(***************************************************************************)
\* The descriptor's `where` is no Q object.
RawText(idx) == idx.where.kind = "text"

HasRawText == \E i \in 1 .. Len(UniqueDescriptors) : RawText(UniqueDescriptors[i])

BrokenBeforeRawText ==
    \E j \in 1 .. Len(UniqueDescriptors) :
        /\ \A i \in 1 .. j : ~RawText(UniqueDescriptors[i])
        /\ ~(Range(UniqueDescriptors[j].fields) \subseteq FieldNames)

Collide(idx, r1, r2) ==
    /\ idx.unique
    /\ Eval(IndexCondition(idx, vendor), r1) = "T"
    /\ Eval(IndexCondition(idx, vendor), r2) = "T"
    /\ \A c \in IndexColumns(idx) : r1[c] # None /\ r1[c] = r2[c]

C3_DatabaseEnforcesUniqueness ==
    \A i \in 1 .. Len(decl.indexes) :
        /\ \A r1, r2 \in store : r1 # r2 => ~Collide(decl.indexes[i], r1, r2)
        /\ \A w1, w2 \in Writers :
               (/\ w1 # w2
                /\ writers[w1].pc = "done" /\ writers[w2].pc = "done"
                /\ Collide(decl.indexes[i], writers[w1].self, writers[w2].self))
               => ~(writers[w1].saved = "ok" /\ writers[w2].saved = "ok")

\* Both pre-checks passed for colliding rows; one writer saved, the
\* database rejected the other.
C3_Witness ==
    /\ decl = RoomBookingQ
    /\ Collide(decl.indexes[1], writers[1].self, writers[2].self)
    /\ writers[1].outcome.kind = "ok" /\ writers[2].outcome.kind = "ok"
    /\ writers[1].pc = "done" /\ writers[2].pc = "done"
    /\ writers[1].saved = "ok" /\ writers[2].saved = "IntegrityError"
    /\ Cardinality(store) = 1

(***************************************************************************)
(* C11  Construction rejection.  Constructing a descriptor with no         *)
(* predicate at all, or with a single predicate and a dialect-specific     *)
(* one, or with identical postgres and sqlite predicates and no single     *)
(* one, fails with ValueError and produces no descriptor.                  *)
(***************************************************************************)
\* The arguments of the constructor call that was made.
Declared == descriptor.pc # "start"

NoPredicate(args) ==
    args.where = "" /\ args.where_postgresql = "" /\ args.where_sqlite = ""

BothForms(args) ==
    args.where # "" /\ (args.where_postgresql # "" \/ args.where_sqlite # "")

IdenticalDialects(args) ==
    args.where = "" /\ args.where_postgresql = args.where_sqlite

C11_ConstructionRejection ==
    (/\ Declared
     /\ \/ NoPredicate(descriptor.args)
        \/ BothForms(descriptor.args)
        \/ IdenticalDialects(descriptor.args))
    => /\ descriptor.pc = "rejected"
       /\ descriptor.outcome.kind = "ValueError"
       /\ descriptor.idx = NoDescriptor

\* A valid uniqueness flag and the same non-empty text for both dialects:
\* the constructor raises.
C11_Witness ==
    /\ descriptor.pc = "rejected"
    /\ descriptor.args.unique = "True"
    /\ descriptor.args.where = ""
    /\ descriptor.args.where_postgresql = "x" /\ descriptor.args.where_sqlite = "x"
    /\ descriptor.outcome.kind = "ValueError"

(***************************************************************************)
(* C12  Every descriptor that construction accepts carries exactly one     *)
(* predicate form: a non-empty single predicate with both dialect          *)
(* predicates empty, or an empty single predicate with a postgres and a    *)
(* sqlite predicate, both non-empty and different; so the predicate        *)
(* selected for a supported dialect is never empty.                        *)
(***************************************************************************)
C12_ExactlyOnePredicateForm ==
    descriptor.pc = "constructed" =>
    LET idx == descriptor.idx IN
    /\ \/ /\ idx.where.text # ""
          /\ idx.where_postgresql = "" /\ idx.where_sqlite = ""
       \/ /\ idx.where.text = ""
          /\ idx.where_postgresql # "" /\ idx.where_sqlite # ""
          /\ idx.where_postgresql # idx.where_sqlite
    /\ \A v \in Vendors : get_where_condition_for_vendor(idx, v).text # ""

(***************************************************************************)
(* C13  The uniqueness flag must be given as true or false: a constructor  *)
(* call without the flag, or with any value other than the booleans, is    *)
(* rejected with ValueError, whatever the predicates are.                  *)
(***************************************************************************)
C13_UniqueMustBeBoolean ==
    (Declared /\ descriptor.args.unique \notin {"True", "False"})
    => descriptor.pc = "rejected" /\ descriptor.outcome.kind = "ValueError"

(***************************************************************************)
(* C14  Length bound.  Every name set_name_with_model assigns to a         *)
(* descriptor has at most 34 characters, however long the names of the     *)
(* table and of the columns are: no descriptor is left with a longer name, *)
(* and naming fails exactly when the computed name is longer.              *)
(***************************************************************************)
\* The last call was set_name_with_model.
Named == descriptor.op = "set_name_with_model"

\* The column of the first field of the declaration.
FirstColumn == descriptor.owner.column[StripOrder(descriptor.args.fields[1])]

\* The length of the name computed from the table and the first column.
ComputedLength ==
    LET AtMost(text, n) == IF Len(text) < n THEN Len(text) ELSE n
    IN  AtMost(descriptor.owner.db_table, 11) + 1 + AtMost(FirstColumn, 7) + 1 + 6 + 1
            + Len("partial")

C14_LengthBound ==
    /\ NameLength(descriptor.name) <= 34
    /\ Named => /\ NameLength(descriptor.name) = ComputedLength
                /\ descriptor.outcome.kind = "AssertionError" <=> ComputedLength > 34

\* The names of the table and of the first column are longer than the
\* parts kept of them, and the name has exactly 34 characters.
C14_Witness ==
    /\ Named /\ descriptor.outcome.kind = "ok"
    /\ descriptor.args.unique = "True"
    /\ Len(descriptor.owner.db_table) > 11 /\ Len(FirstColumn) > 7
    /\ NameLength(descriptor.name) = 34

(***************************************************************************)
(* C15  Name determinism, as first stated: the name is a function of the   *)
(* table name, the columns with their direction markers, the suffix, the   *)
(* uniqueness flag and the three predicate texts, and it is the first 11   *)
(* characters of the table name, '_', the first 7 characters of the first  *)
(* column, '_', the hash, '_' and the suffix.                              *)
(***************************************************************************)
\* A field of the declaration as it enters the hash: the column, with '-'
\* before it when the field is descending.
HashedColumn(f) ==
    IF f = StripOrder(f) THEN descriptor.owner.column[f]
    ELSE "-" \o descriptor.owner.column[StripOrder(f)]

\* The bytes the hash is taken of.
RECURSIVE HashedColumns(_)
HashedColumns(i) ==
    IF i > Len(descriptor.args.fields) THEN ""
    ELSE HashedColumn(descriptor.args.fields[i]) \o HashedColumns(i + 1)

Hashed ==
    descriptor.owner.db_table \o HashedColumns(1) \o "partial"
        \o descriptor.args.unique \o descriptor.args.where
        \o descriptor.args.where_postgresql \o descriptor.args.where_sqlite

\* The text of the name before the hash.
NameHead == Prefix(descriptor.owner.db_table, 11) \o "_" \o Prefix(FirstColumn, 7) \o "_"

C15_NameFormula ==
    (Named /\ descriptor.outcome.kind = "ok") =>
    descriptor.name = Name(NameHead, Hashed, 6, "_partial")

(***************************************************************************)
(* C15  Name determinism, amended: the name is that text with its first    *)
(* character replaced by 'D' when the table name starts with an underscore *)
(* or a digit; it is a function of the table name, the columns with their  *)
(* direction markers, the suffix, the uniqueness flag and the three        *)
(* predicate texts only, so naming again gives the same name.              *)
(***************************************************************************)
StartsWithUnderscoreOrDigit(text) ==
    \E c \in {"_", "0", "1", "2", "3", "4", "5", "6", "7", "8", "9"} :
        Len(text) > 0 /\ SubSeq(text, 1, 1) = c

C15_NameDeterminism ==
    (descriptor.name # NoName) =>
    descriptor.name =
        Name(IF StartsWithUnderscoreOrDigit(descriptor.owner.db_table)
             THEN "D" \o SubSeq(NameHead, 2, Len(NameHead)) ELSE NameHead,
             Hashed, 6, "_partial")

\* A descriptor on a table whose name starts with an underscore is named.
C15_Witness ==
    /\ Named /\ descriptor.outcome.kind = "ok"
    /\ descriptor.args.unique = "True"
    /\ descriptor.owner.db_table = "_legacy"
    /\ descriptor.name.head = "Dlegacy_user_id_"

(***************************************************************************)
(* C16  Name sensitivity.  Two accepted descriptors on the same table with *)
(* the same fields, directions and uniqueness flag whose predicate texts   *)
(* differ in any of the three slots get different names (the hash taken    *)
(* to have no collisions).                                                 *)
(***************************************************************************)
\* The descriptor declared with the predicates where, where_postgresql and
\* where_sqlite in the place of those of the current one.
Variant(where, where_postgresql, where_sqlite) ==
    __init__(descriptor.args.fields, descriptor.args.unique,
             where, where_postgresql, where_sqlite)

C16_NameSensitivity ==
    (Named /\ descriptor.outcome.kind = "ok") =>
    \A where \in Texts, where_postgresql \in DialectTexts, where_sqlite \in DialectTexts :
        LET other == Variant(where, where_postgresql, where_sqlite) IN
        (/\ other.kind = "PartialIndex"
         /\ <<where, where_postgresql, where_sqlite>> #
                <<descriptor.args.where, descriptor.args.where_postgresql,
                  descriptor.args.where_sqlite>>)
        => set_name_with_model(other.idx, descriptor.owner).name # descriptor.name

(***************************************************************************)
(* C17  Unsupported dialect.  For a vendor other than postgresql and       *)
(* sqlite create_sql fails with ValueError and returns no statement; no    *)
(* template or predicate of a supported dialect stands in, and the         *)
(* "Should never happen" branch is never reached through create_sql.       *)
(***************************************************************************)
\* The last call was create_sql.
Created == descriptor.op = "create_sql"

C17_UnsupportedDialect ==
    Created =>
    /\ descriptor.vendor \notin {"postgresql", "sqlite"} =>
           /\ descriptor.outcome.kind = "ValueError"
           /\ descriptor.outcome.message = "Database vendor is not supported"
           /\ descriptor.outcome.sql = ""
    /\ descriptor.outcome.message # "Should never happen"

\* create_sql on a mysql connection raises.
C17_Witness ==
    /\ Created /\ descriptor.vendor = "mysql"
    /\ descriptor.args.unique = "True"
    /\ descriptor.outcome.kind = "ValueError"

(***************************************************************************)
(* Reading a generated statement.                                          *)
(***************************************************************************)
\* The positions of `sql` at which the text `part` starts.
Occurrences(sql, part) ==
    {i \in 1 .. (Len(sql) - Len(part) + 1) : SubSeq(sql, i, i + Len(part) - 1) = part}

Contains(sql, part) == Occurrences(sql, part) # {}

StartsWith(sql, part) == 1 \in Occurrences(sql, part)

\* What follows the first occurrence of `part` in `sql`.
After(sql, part) ==
    LET first == CHOOSE i \in Occurrences(sql, part) :
                     \A j \in Occurrences(sql, part) : i <= j
    IN  SubSeq(sql, first + Len(part), Len(sql))

\* create_sql returned a statement.
Generated == Created /\ descriptor.outcome.kind = "ok"

(***************************************************************************)
(* C18  Predicate rendering.  On a supported dialect the WHERE clause of   *)
(* the statement is that dialect's own predicate, verbatim, when the       *)
(* descriptor defines one, and the dialect-agnostic predicate otherwise;   *)
(* the other dialect's predicate is never rendered.                        *)
(***************************************************************************)
\* The predicate the descriptor was declared with for the dialect.
OwnPredicate ==
    IF descriptor.vendor = "postgresql" THEN descriptor.args.where_postgresql
    ELSE descriptor.args.where_sqlite

C18_PredicateRendering ==
    Generated =>
    /\ Cardinality(Occurrences(descriptor.outcome.sql, " WHERE ")) = 1
    /\ After(descriptor.outcome.sql, " WHERE ") =
           IF OwnPredicate # "" THEN OwnPredicate ELSE descriptor.args.where

\* A statement for sqlite of a descriptor with both dialect predicates, and
\* one for postgresql of a descriptor with the generic predicate only.
C18_Witness ==
    /\ Generated /\ descriptor.args.unique = "True"
    /\ \/ /\ descriptor.vendor = "sqlite"
          /\ descriptor.args.where_postgresql = "x"
          /\ descriptor.args.where_sqlite = "y"
          /\ After(descriptor.outcome.sql, " WHERE ") = "y"
       \/ /\ descriptor.vendor = "postgresql"
          /\ descriptor.args.where = "xy"
          /\ After(descriptor.outcome.sql, " WHERE ") = "xy"

(***************************************************************************)
(* C19  USING clause.  The statement for the sqlite dialect contains no    *)
(* USING text, whatever `using` argument create_sql is called with.        *)
(***************************************************************************)
C19_UsingClause ==
    (Generated /\ descriptor.vendor = "sqlite") =>
        ~Contains(descriptor.outcome.sql, "USING")

(***************************************************************************)
(* C20  create_sql.  The result is one CREATE INDEX statement; it has the  *)
(* UNIQUE keyword if and only if the uniqueness flag is true; the index    *)
(* name is the descriptor's name; the column list holds the columns of the *)
(* descriptor's fields in the declared order, each with its direction.     *)
(***************************************************************************)
\* The column of the declared field `f` with its direction.
DeclaredColumn(f) ==
    IF Head(f) = "-"
    THEN "\"" \o descriptor.owner.column[Tail(f)] \o "\" DESC"
    ELSE "\"" \o descriptor.owner.column[f] \o "\""

RECURSIVE DeclaredColumns(_)
DeclaredColumns(fields) ==
    IF Len(fields) = 1 THEN DeclaredColumn(fields[1])
    ELSE DeclaredColumn(fields[1]) \o ", " \o DeclaredColumns(Tail(fields))

\* The flag is true (1 equals True).
FlagTrue == descriptor.args.unique \in {"True", "1"}

C20_CreateSql ==
    Generated =>
    LET sql == descriptor.outcome.sql
        named == " INDEX \"" \o NameText(descriptor.name) \o "\" ON \""
                     \o descriptor.owner.db_table \o "\""
    IN  /\ Occurrences(sql, "CREATE") = {1}
        /\ ~Contains(sql, ";")
        /\ Contains(sql, "UNIQUE") <=> FlagTrue
        /\ StartsWith(sql, (IF FlagTrue THEN "CREATE UNIQUE" ELSE "CREATE") \o named)
        /\ Contains(sql, " (" \o DeclaredColumns(descriptor.args.fields) \o ")")
        /\ Cardinality(Occurrences(sql, "\", \"") \cup Occurrences(sql, "\" DESC, \""))
               = Len(descriptor.args.fields) - 1

\* A statement for a named unique descriptor with a descending first field.
C20_Witness ==
    /\ Generated /\ descriptor.args.unique = "True"
    /\ descriptor.name # NoName
    /\ descriptor.args.fields = <<"-a", "b">>
    /\ Contains(descriptor.outcome.sql, "CREATE UNIQUE INDEX ")
    /\ Contains(descriptor.outcome.sql, " DESC, ")

(***************************************************************************)
(* C21  Error key.  The failure of a violated unique descriptor on exactly *)
(* one field is recorded under that field's name, that of a descriptor on  *)
(* two or more fields under the form-level key; how many fields only the   *)
(* predicate mentions does not change the key.                             *)
(***************************************************************************)
\* The exclusion set the pre-check of the call worked with.
EffectiveExclude ==
    IF call.entry = "validate_unique" THEN ForcedExclude(call.force, call.exclude)
    ELSE call.exclude

\* Descriptor idx is violated on its own under the call's exclusion set.
ViolatedInCall(idx) ==
    check_idxs(<<idx>>, 1, store, call.self, EffectiveExclude, EmptyDict).kind
        = "ValidationError"

\* The fields that only the predicate of idx mentions.
PredicateOnly(idx) == q_mentioned_fields(idx.where.q) \ Range(idx.fields)

\* The keys of the call's error under which the entry of idx is recorded.
KeysOf(idx) ==
    {k \in DOMAIN call.outcome.errors :
        \E j \in 1 .. Len(call.outcome.errors[k]) :
            call.outcome.errors[k][j] = unique_error_message(Range(idx.fields))}

C21_ErrorKey ==
    (Validated /\ Completed) =>
    \A i \in 1 .. Len(UniqueDescriptors) :
        LET idx == UniqueDescriptors[i] IN
        ViolatedInCall(idx) =>
            IF Len(idx.fields) = 1
            THEN idx.fields[1] \in FieldNames /\ KeysOf(idx) = {idx.fields[1]}
            ELSE KeysOf(idx) = {NON_FIELD_ERRORS}

\* A descriptor on one field whose predicate mentions two more fields is
\* violated and recorded under the field's name.
C21_Witness ==
    /\ Validated /\ Completed
    /\ \E i \in 1 .. Len(UniqueDescriptors) :
           LET idx == UniqueDescriptors[i] IN
           /\ Len(idx.fields) = 1
           /\ Cardinality(PredicateOnly(idx)) = 2
           /\ ViolatedInCall(idx)
           /\ IndexRejects(idx, call.self)
           /\ KeysOf(idx) = {idx.fields[1]}

\* A descriptor on two fields whose predicate mentions no other field is
\* violated and recorded under the form-level key.
C21_WitnessFormLevel ==
    /\ Validated /\ Completed
    /\ \E i \in 1 .. Len(UniqueDescriptors) :
           LET idx == UniqueDescriptors[i] IN
           /\ Len(idx.fields) = 2
           /\ PredicateOnly(idx) = {}
           /\ ViolatedInCall(idx)
           /\ KeysOf(idx) = {NON_FIELD_ERRORS}

(***************************************************************************)
(* C22  Read-only and idempotent.  A call of validate_unique or of         *)
(* validate_partial_unique, whether it returns, raises a validation error  *)
(* or raises a configuration error, leaves the stored rows, the field      *)
(* values of the instance and every descriptor as they were; the call      *)
(* repeated on the unchanged store and instance has the same outcome with  *)
(* the same error entries.                                                 *)
(***************************************************************************)
\* The step is a validation call: a first one or a repeated one.
ValidationStep ==
    \/ call.pc = "idle" /\ call'.pc = "validated"
    \/ call.pc = "validated" /\ call'.pc = "revalidated"

C22_WitnessConfigurationError ==
    /\ call.pc = "revalidated"
    /\ store # {}
    /\ call.outcome.kind \in {"ImproperlyConfigured", "RuntimeError"}

(***************************************************************************)
(* C23  Deconstruct round trip.  For every descriptor that construction    *)
(* accepts, deconstruct returns the keyword arguments fields, name,        *)
(* unique, where, where_postgresql and where_sqlite; construction from     *)
(* them succeeds and gives a descriptor with the same fields, uniqueness   *)
(* flag and three predicates, hence the same generated name and the same   *)
(* statement for each dialect.                                             *)
(***************************************************************************)
\* The last call took the descriptor apart and built it again.
Reconstructed == descriptor.op = "deconstruct"

C23_DeconstructRoundTrip ==
    Reconstructed =>
    LET again == descriptor.outcome IN
    /\ DOMAIN again.kwargs =
           {"fields", "name", "unique", "where", "where_postgresql", "where_sqlite"}
    /\ again.kind = "PartialIndex"
    /\ again.idx.fields = descriptor.args.fields
    /\ again.idx.unique = descriptor.args.unique
    /\ again.idx.where.text = descriptor.args.where
    /\ again.idx.where_postgresql = descriptor.args.where_postgresql
    /\ again.idx.where_sqlite = descriptor.args.where_sqlite
    /\ again.name = descriptor.name
    /\ set_name_with_model(again.idx, descriptor.owner)
           = set_name_with_model(descriptor.idx, descriptor.owner)
    /\ \A v \in Vendors, using \in Usings, extra \in Extras :
           create_sql(again.idx, again.name, descriptor.owner, v, using, extra)
               = create_sql(descriptor.idx, descriptor.name, descriptor.owner,
                            v, using, extra)

\* A named descriptor with two dialect predicates, of a table whose name
\* starts with an underscore, was taken apart and built again.
C23_Witness ==
    /\ Reconstructed
    /\ descriptor.args.unique = "True"
    /\ descriptor.args.where_postgresql = "x" /\ descriptor.args.where_sqlite = "y"
    /\ descriptor.owner.db_table = "_legacy"
    /\ descriptor.name # NoName
    /\ descriptor.outcome.kind = "PartialIndex"
    /\ descriptor.outcome.name = descriptor.name

=============================================================================
